---- MODULE Spec2Model ----
(***************************************************************************)
(* Model of the leveled logging collector of upper.io/db (logger.go).      *)
(*                                                                         *)
(* The collector holds a threshold (level) and a backend reference         *)
(* (logger).  Log calls compose a message and invoke the backend's panic,  *)
(* fatal and print operations.  Texts are modelled as sequences of tokens, *)
(* so that "the message contains X" is a statement about its tokens.       *)
(***************************************************************************)
EXTENDS Integers, Sequences, FiniteSets, TLC

\* ------------------------------------------------------------------------
\* Bounds of the model
\* ------------------------------------------------------------------------

\* SetLevel/Enabled arguments range this far outside Trace..Panic.
LevelSpan == 1

\* Longest argument list passed to a log call.
MaxArgs == 1

\* ------------------------------------------------------------------------
\* Program constants
\* ------------------------------------------------------------------------

MinInt8 == -128
MaxInt8 == 127

LogLevelTrace == -1

\* "LogLevelDebug LogLevel = iota" is the second ConstSpec of its block, so
\* iota is 1 there; the following constants repeat the expression.
LogLevelDebug == 1
LogLevelInfo == 2
LogLevelWarn == 3
LogLevelError == 4
LogLevelFatal == 5
LogLevelPanic == 6

logLevels_dupName ==
    (LogLevelTrace :> "TRACE") @@ (LogLevelDebug :> "DEBUG") @@
    (LogLevelInfo :> "INFO") @@ (LogLevelWarn :> "WARNING") @@
    (LogLevelError :> "ERROR") @@ (LogLevelFatal :> "ERROR") @@
    (LogLevelPanic :> "PANIC")

logLevels ==
    (LogLevelTrace :> "TRACE") @@ (LogLevelDebug :> "DEBUG") @@
    (LogLevelInfo :> "INFO") @@ (LogLevelWarn :> "WARNING") @@
    (LogLevelError :> "ERROR") @@ (LogLevelFatal :> "FATAL") @@
    (LogLevelPanic :> "PANIC")

defaultLogLevel_info == LogLevelInfo

defaultLogLevel == LogLevelWarn

\* The backend the package creates with log.New(os.Stdout, "", LstdFlags).
defaultLogger == "default"

\* The nil Logger interface value.
nil == "nil"

\* Backends a client can pass to SetLogger: two whose Panic and Fatal
\* operations return to the caller (recording doubles), and one that, like
\* the standard library's logger, never returns from them.
ReturningBackends == {"rec1", "rec2"}
ClientBackends == ReturningBackends \cup {"strict"}
Backends == ClientBackends \cup {defaultLogger}

\* A map lookup of an absent key yields the zero value, the empty string.
LevelName(lvl) == IF lvl \in DOMAIN logLevels THEN logLevels[lvl] ELSE ""

\* ------------------------------------------------------------------------
\* Inputs
\* ------------------------------------------------------------------------

\* LogLevel is an int8: the named levels, their neighbourhood and the extremes.
LevelArgs ==
    ((LogLevelTrace - LevelSpan)..(LogLevelPanic + LevelSpan))
        \cup {MinInt8, MaxInt8}

\* The environment's UPPER_DB_LOG at startup: <<>> when unset, <<s>> when set to s.
EnvValues ==
    {<<>>} \cup
    { <<s>> : s \in {"", "TRACE", "DEBUG", "INFO", "WARNING", "ERROR",
                     "FATAL", "PANIC", "WARN", "error", "7"} }

Formats == {"%v rows", "done"}
ArgVals == {<<"a">>}
ArgLists == UNION { [1..n -> ArgVals] : n \in 0..MaxArgs }

\* What runtime.Caller(2) reports.
NoFrame == [ok |-> FALSE, file |-> "", line |-> "0"]
Frames == {NoFrame, [ok |-> TRUE, file |-> "app.go", line |-> "42"]}

\* ------------------------------------------------------------------------
\* State
\* ------------------------------------------------------------------------

VARIABLES
    level,      \* loggingCollector.level of the default collector
    logger,     \* loggingCollector.logger (nil or a backend)
    pc,         \* "init" before init() ran, "run", "exited"
    calls,      \* backend invocations made by the last operation, in order
    lastOp,     \* the last operation, its inputs and its result
    levelSrc,   \* history: what last set the threshold
    levelArg,   \* history: argument of the last SetLevel call
    loggerArgs, \* history: arguments of the last two SetLogger calls
    cpc,        \* position of the log call in progress, "idle" if none
    cur,        \* the log call in progress or last made step by step
    wr          \* the SetLogger store in progress on another thread

vars ==
    <<level, logger, pc, calls, lastOp, levelSrc, levelArg, loggerArgs,
      cpc, cur, wr>>

\* The variables of the interleaved execution.
cvars == <<cpc, cur, wr>>

NoCall ==
    [m |-> "", lvl |-> 0, fmtd |-> FALSE, params |-> <<>>, f |-> "",
     fr |-> NoFrame, thr0 |-> 0, loggerTouched |-> FALSE,
     levelTouched |-> FALSE]

NoWrite == [to |-> nil, word |-> "none"]

Op(name, lvl, b, res, f, v, fr) ==
    [op |-> name, lvl |-> lvl, b |-> b, res |-> res, thr |-> level,
     f |-> f, v |-> v, fr |-> fr, env |-> <<>>]

\* ------------------------------------------------------------------------
\* The collector's methods
\* ------------------------------------------------------------------------

Enabled_above(lvl) == lvl > level

Enabled(lvl) == lvl >= level

SetLevel_validated(lvl) ==
    /\ level' = IF lvl \in DOMAIN logLevels THEN lvl ELSE level
    /\ logger' = logger

SetLevel(lvl) ==
    /\ level' = lvl
    /\ logger' = logger

Logger == IF logger = nil THEN defaultLogger ELSE logger

SetLogger_nilIgnored(b) ==
    /\ logger' = IF b = nil THEN logger ELSE b
    /\ level' = level

SetLogger_resetsLevel(b) ==
    /\ logger' = b
    /\ level' = defaultLogLevel

SetLogger(b) ==
    /\ logger' = b
    /\ level' = level

\* ------------------------------------------------------------------------
\* Backend invocations
\* ------------------------------------------------------------------------

OpKind(op) ==
    CASE op \in {"Panic", "Panicf"} -> "panic"
      [] op \in {"Fatal", "Fatalf"} -> "fatal"
      [] op \in {"Print", "Printf"} -> "print"

\* How control leaves a backend operation.
Outcome(b, op) ==
    IF OpKind(op) = "print" \/ b \in ReturningBackends THEN "returned"
    ELSE IF OpKind(op) = "panic" THEN "panicked"
    ELSE "exited"

\* One guarded statement "if cond { c.Logger().op(params...) }" executed
\* after the statements summarised by acc: nothing if control has already
\* left the function.
Invoke(acc, cond, op, params) ==
    IF acc.outcome # "returned" \/ ~cond THEN acc
    ELSE [calls |-> Append(acc.calls,
                           [op |-> op, backend |-> Logger, params |-> params]),
          outcome |-> Outcome(Logger, op)]

Entered == [calls |-> <<>>, outcome |-> "returned"]

logf_elseIf(lvl, f, v, fr) ==
    LET format == <<"upper/db: ">> \o
            (IF fr.ok
             THEN <<"log_level=", LevelName(lvl), " file=", fr.file, ":",
                    fr.line, "\n", f>>
             ELSE <<LevelName(lvl), "\n", f>>)
        p == <<format>> \o v
    IN IF lvl >= LogLevelPanic THEN Invoke(Entered, TRUE, "Panicf", p)
       ELSE IF lvl >= LogLevelFatal THEN Invoke(Entered, TRUE, "Fatalf", p)
       ELSE Invoke(Entered, Enabled(lvl), "Printf", p)

logf(lvl, f, v, fr) ==
    LET format == <<"upper/db: ">> \o
            (IF fr.ok
             THEN <<"log_level=", LevelName(lvl), " file=", fr.file, ":",
                    fr.line, "\n", f>>
             ELSE <<LevelName(lvl), "\n", f>>)
        p == <<format>> \o v
        s1 == Invoke(Entered, lvl >= LogLevelPanic, "Panicf", p)
        s2 == Invoke(s1, lvl >= LogLevelFatal, "Fatalf", p)
    IN Invoke(s2, Enabled(lvl), "Printf", p)

log_printFirst(lvl, v, fr) ==
    LET format == <<"upper/db: ">> \o
            (IF fr.ok
             THEN <<"log_level=", LevelName(lvl), " file=", fr.file, ":",
                    fr.line, "\n">>
             ELSE <<LevelName(lvl), "\n">>)
        p == <<format>> \o v
        s1 == Invoke(Entered, Enabled(lvl), "Print", p)
        s2 == Invoke(s1, lvl >= LogLevelPanic, "Panic", p)
    IN Invoke(s2, lvl >= LogLevelFatal, "Fatal", p)

log_needsFrame(lvl, v, fr) ==
    LET format == <<"upper/db: ">> \o
            <<"log_level=", LevelName(lvl), " file=", fr.file, ":",
              fr.line, "\n">>
        p == <<format>> \o v
        s1 == Invoke(Entered, fr.ok /\ lvl >= LogLevelPanic, "Panic", p)
        s2 == Invoke(s1, fr.ok /\ lvl >= LogLevelFatal, "Fatal", p)
    IN Invoke(s2, fr.ok /\ Enabled(lvl), "Print", p)

log(lvl, v, fr) ==
    LET format == <<"upper/db: ">> \o
            (IF fr.ok
             THEN <<"log_level=", LevelName(lvl), " file=", fr.file, ":",
                    fr.line, "\n">>
             ELSE <<LevelName(lvl), "\n">>)
        p == <<format>> \o v
        s1 == Invoke(Entered, lvl >= LogLevelPanic, "Panic", p)
        s2 == Invoke(s1, lvl >= LogLevelFatal, "Fatal", p)
    IN Invoke(s2, Enabled(lvl), "Print", p)

\* The per-level wrappers.
Debugf(f, v, fr) == logf(LogLevelDebug, f, v, fr)
Debug(v, fr) == log(LogLevelDebug, v, fr)

Tracef(f, v, fr) == logf(LogLevelTrace, f, v, fr)

Trace_atTrace(v, fr) == log(LogLevelTrace, v, fr)

Trace(v, fr) == log(LogLevelDebug, v, fr)

Infof(f, v, fr) == logf(LogLevelInfo, f, v, fr)
Info(v, fr) == log(LogLevelInfo, v, fr)

Warnf(f, v, fr) == logf(LogLevelWarn, f, v, fr)
Warn(v, fr) == log(LogLevelWarn, v, fr)

Errorf(f, v, fr) == logf(LogLevelError, f, v, fr)
Error(v, fr) == log(LogLevelError, v, fr)

Fatalf(f, v, fr) == logf(LogLevelFatal, f, v, fr)
Fatal(v, fr) == log(LogLevelFatal, v, fr)

Panicf(f, v, fr) == logf(LogLevelPanic, f, v, fr)
Panic(v, fr) == log(LogLevelPanic, v, fr)

\* ------------------------------------------------------------------------
\* Startup
\* ------------------------------------------------------------------------

\* os.Getenv does not tell an unset variable from an empty one.
Getenv(e) == IF e = <<>> THEN "" ELSE e[1]

\* The orders in which "for k := range logLevels" can visit the keys.
KeySeq ==
    <<LogLevelTrace, LogLevelDebug, LogLevelInfo, LogLevelWarn,
      LogLevelError, LogLevelFatal, LogLevelPanic>>

RangeOrders ==
    { [i \in 1..Len(KeySeq) |-> p[KeySeq[i]]] :
        p \in Permutations(DOMAIN logLevels) }

\* init(): the first visited key whose name equals the variable's value is
\* passed to SetLevel; without one, or with an empty value, nothing is set.
init(e, order) ==
    LET logLevel == Getenv(e)
        hits == {i \in 1..Len(order) : logLevels[order[i]] = logLevel}
        first == CHOOSE i \in hits : \A j \in hits : i <= j
    IN IF logLevel # "" /\ hits # {}
       THEN /\ SetLevel(order[first])
            /\ levelArg' = order[first]
            /\ levelSrc' = "env"
       ELSE /\ UNCHANGED <<level, logger>>
            /\ UNCHANGED <<levelArg, levelSrc>>

Init ==
    /\ level = defaultLogLevel
    /\ logger = defaultLogger
    /\ pc = "init"
    /\ calls = <<>>
    /\ lastOp = [op |-> "new", lvl |-> 0, b |-> nil, res |-> FALSE,
                 thr |-> defaultLogLevel, f |-> "", v |-> <<>>,
                 fr |-> NoFrame, env |-> <<>>]
    /\ levelSrc = "default"
    /\ levelArg = defaultLogLevel
    /\ loggerArgs = <<"none", "none">>
    /\ cpc = "idle"
    /\ cur = NoCall
    /\ wr = NoWrite

RunInit ==
    /\ pc = "init"
    /\ \E e \in EnvValues, order \in RangeOrders :
         /\ init(e, order)
         /\ lastOp' = [Op("init", 0, nil, FALSE, "", <<>>, NoFrame)
                          EXCEPT !.env = e]
    /\ pc' = "run"
    /\ calls' = <<>>
    /\ UNCHANGED loggerArgs
    /\ UNCHANGED cvars

\* ------------------------------------------------------------------------
\* Calls made by the client through Log()
\* ------------------------------------------------------------------------

CallEnabled ==
    /\ pc = "run"
    /\ \E lvl \in LevelArgs :
         lastOp' = Op("Enabled", lvl, nil, Enabled(lvl), "", <<>>, NoFrame)
    /\ calls' = <<>>
    /\ UNCHANGED <<level, logger, pc, levelSrc, levelArg, loggerArgs>>
    /\ UNCHANGED cvars

CallSetLevel ==
    /\ pc = "run"
    /\ \E lvl \in LevelArgs :
         /\ SetLevel(lvl)
         /\ levelArg' = lvl
         /\ lastOp' = Op("SetLevel", lvl, nil, FALSE, "", <<>>, NoFrame)
    /\ levelSrc' = "SetLevel"
    /\ calls' = <<>>
    /\ UNCHANGED <<pc, loggerArgs>>
    /\ UNCHANGED cvars

CallSetLogger ==
    /\ pc = "run"
    /\ \E b \in ClientBackends \cup {nil} :
         /\ SetLogger(b)
         /\ loggerArgs' = <<loggerArgs[2], b>>
         /\ lastOp' = Op("SetLogger", 0, b, FALSE, "", <<>>, NoFrame)
    /\ calls' = <<>>
    /\ UNCHANGED <<pc, levelSrc, levelArg>>
    /\ UNCHANGED cvars

\* A log call that ran as r describes: its invocations are recorded; a
\* fatal operation that does not return has ended the process, a panic
\* unwinds into the caller, which recovers or dies.
LogCall(name, f, v, fr, r) ==
    /\ pc = "run"
    /\ calls' = r.calls
    /\ pc' \in (CASE r.outcome = "returned" -> {"run"}
                  [] r.outcome = "panicked" -> {"run", "exited"}
                  [] r.outcome = "exited" -> {"exited"})
    /\ lastOp' = Op(name, 0, nil, FALSE, f, v, fr)
    /\ UNCHANGED <<level, logger, levelSrc, levelArg, loggerArgs>>
    /\ UNCHANGED cvars

CallDebugf ==
    \E f \in Formats, v \in ArgLists, fr \in Frames :
        LogCall("Debugf", f, v, fr, Debugf(f, v, fr))
CallDebug ==
    \E v \in ArgLists, fr \in Frames : LogCall("Debug", "", v, fr, Debug(v, fr))
CallTracef ==
    \E f \in Formats, v \in ArgLists, fr \in Frames :
        LogCall("Tracef", f, v, fr, Tracef(f, v, fr))
CallTrace ==
    \E v \in ArgLists, fr \in Frames : LogCall("Trace", "", v, fr, Trace(v, fr))
CallInfof ==
    \E f \in Formats, v \in ArgLists, fr \in Frames :
        LogCall("Infof", f, v, fr, Infof(f, v, fr))
CallInfo ==
    \E v \in ArgLists, fr \in Frames : LogCall("Info", "", v, fr, Info(v, fr))
CallWarnf ==
    \E f \in Formats, v \in ArgLists, fr \in Frames :
        LogCall("Warnf", f, v, fr, Warnf(f, v, fr))
CallWarn ==
    \E v \in ArgLists, fr \in Frames : LogCall("Warn", "", v, fr, Warn(v, fr))
CallErrorf ==
    \E f \in Formats, v \in ArgLists, fr \in Frames :
        LogCall("Errorf", f, v, fr, Errorf(f, v, fr))
CallError ==
    \E v \in ArgLists, fr \in Frames : LogCall("Error", "", v, fr, Error(v, fr))
CallFatalf ==
    \E f \in Formats, v \in ArgLists, fr \in Frames :
        LogCall("Fatalf", f, v, fr, Fatalf(f, v, fr))
CallFatal ==
    \E v \in ArgLists, fr \in Frames : LogCall("Fatal", "", v, fr, Fatal(v, fr))
CallPanicf ==
    \E f \in Formats, v \in ArgLists, fr \in Frames :
        LogCall("Panicf", f, v, fr, Panicf(f, v, fr))
CallPanic ==
    \E v \in ArgLists, fr \in Frames : LogCall("Panic", "", v, fr, Panic(v, fr))

Next ==
    \/ RunInit
    \/ CallEnabled
    \/ CallSetLevel
    \/ CallSetLogger
    \/ CallDebugf
    \/ CallDebug
    \/ CallTracef
    \/ CallTrace
    \/ CallInfof
    \/ CallInfo
    \/ CallWarnf
    \/ CallWarn
    \/ CallErrorf
    \/ CallError
    \/ CallFatalf
    \/ CallFatal
    \/ CallPanicf
    \/ CallPanic

Spec == Init /\ [][Next]_vars

\* ------------------------------------------------------------------------
\* Interleaved execution: one thread makes a log call statement by
\* statement while another thread calls SetLevel and SetLogger.  No field
\* access is guarded by a lock.
\* ------------------------------------------------------------------------

\* Thresholds the other thread sets: below Fatal, at Panic, above Panic.
ConcLevelArgs == {defaultLogLevel, LogLevelPanic, LogLevelPanic + LevelSpan}

\* Backends the other thread sets.
ConcLoggerArgs == ReturningBackends \cup {nil}

ConcMethods == {"Fatal", "Fatalf", "Panic", "Panicf"}

\* The level each wrapper passes to log or logf.
WrapperLevel(m) ==
    CASE m \in {"Debugf", "Debug", "Trace"} -> LogLevelDebug
      [] m = "Tracef" -> LogLevelTrace
      [] m \in {"Infof", "Info"} -> LogLevelInfo
      [] m \in {"Warnf", "Warn"} -> LogLevelWarn
      [] m \in {"Errorf", "Error"} -> LogLevelError
      [] m \in {"Fatalf", "Fatal"} -> LogLevelFatal
      [] m \in {"Panicf", "Panic"} -> LogLevelPanic

\* Whether the wrapper calls logf (otherwise log).
WrapperFormatted(m) ==
    m \in {"Debugf", "Tracef", "Infof", "Warnf", "Errorf", "Fatalf", "Panicf"}

\* The parameters logf / log pass to every backend operation of one call.
ComposeParams(lvl, fmtd, f, v, fr) ==
    LET tail == IF fmtd THEN <<f>> ELSE <<>>
        format == <<"upper/db: ">> \o
            (IF fr.ok
             THEN <<"log_level=", LevelName(lvl), " file=", fr.file, ":",
                    fr.line, "\n">> \o tail
             ELSE <<LevelName(lvl), "\n">> \o tail)
    IN <<format>> \o v

\* A Logger value is an interface: a type word and a data word.
Tab(b) ==
    CASE b = nil -> "nil"
      [] b \in ReturningBackends -> "*Recorder"
      [] b = "strict" -> "*Strict"
      [] b = defaultLogger -> "*log.Logger"

Data(b) == IF b = nil THEN "nil" ELSE b

\* An interface value whose two words come from different stores.
Torn == "torn"

\* What Logger() makes of the two words it reads: the comparison with nil
\* looks at the type word; words of two different stores that do not form
\* a backend are an invalid value.
Resolve(tab, data) ==
    IF tab = "nil" THEN defaultLogger
    ELSE IF \E x \in Backends : Tab(x) = tab /\ Data(x) = data
    THEN CHOOSE x \in Backends : Tab(x) = tab /\ Data(x) = data
    ELSE Torn

\* c.Logger() while another thread may be half way through storing wr.to:
\* the word already stored is the new one, the other the old one.
ReadLogger ==
    Resolve(IF wr.word = "tab" THEN Tab(wr.to) ELSE Tab(logger),
            IF wr.word = "data" THEN Data(wr.to) ELSE Data(logger))

\* How control can leave a backend operation; a call through an invalid
\* interface value may crash or may come back.
Outcomes(b, op) ==
    IF b = Torn THEN {"returned", "panicked"} ELSE {Outcome(b, op)}

InitConc ==
    /\ level = defaultLogLevel
    /\ logger = defaultLogger
    /\ pc = "run"
    /\ calls = <<>>
    /\ lastOp = [op |-> "init", lvl |-> 0, b |-> nil, res |-> FALSE,
                 thr |-> defaultLogLevel, f |-> "", v |-> <<>>,
                 fr |-> NoFrame, env |-> <<>>]
    /\ levelSrc = "default"
    /\ levelArg = defaultLogLevel
    /\ loggerArgs = <<"none", "none">>
    /\ cpc = "idle"
    /\ cur = NoCall
    /\ wr = NoWrite

InFlight == cpc # "idle"

\* The other thread: SetLevel stores one byte.
ConcSetLevel ==
    /\ pc = "run"
    /\ \E lvl \in ConcLevelArgs :
         /\ SetLevel(lvl)
         /\ levelArg' = lvl
    /\ levelSrc' = "SetLevel"
    /\ cur' = [cur EXCEPT !.levelTouched = @ \/ InFlight]
    /\ UNCHANGED <<pc, calls, lastOp, loggerArgs, cpc, wr>>

\* The other thread: SetLogger stores the two words of the interface, in
\* either order; this is the first of the two stores.
ConcSetLoggerFirst ==
    /\ pc = "run"
    /\ wr = NoWrite
    /\ \E b \in ConcLoggerArgs, w \in {"tab", "data"} :
         wr' = [to |-> b, word |-> w]
    /\ cur' = [cur EXCEPT !.loggerTouched = @ \/ InFlight]
    /\ UNCHANGED <<level, logger, pc, calls, lastOp, levelSrc, levelArg,
                   loggerArgs, cpc>>

\* The second store completes SetLogger.
ConcSetLoggerSecond ==
    /\ pc = "run"
    /\ wr # NoWrite
    /\ SetLogger(wr.to)
    /\ loggerArgs' = <<loggerArgs[2], wr.to>>
    /\ wr' = NoWrite
    /\ cur' = [cur EXCEPT !.loggerTouched = @ \/ InFlight]
    /\ UNCHANGED <<pc, calls, lastOp, levelSrc, levelArg, cpc>>

\* The logging thread enters a wrapper and log / logf composes the message.
LogBegin ==
    /\ pc = "run"
    /\ cpc = "idle"
    /\ \E m \in ConcMethods, fr \in Frames :
         LET fmtd == WrapperFormatted(m)
             f == IF fmtd THEN "done" ELSE ""
         IN cur' = [m |-> m, lvl |-> WrapperLevel(m), fmtd |-> fmtd,
                    params |-> ComposeParams(WrapperLevel(m), fmtd, f,
                                             <<>>, fr),
                    f |-> f, fr |-> fr, thr0 |-> level,
                    loggerTouched |-> wr # NoWrite,
                    levelTouched |-> FALSE]
    /\ calls' = <<>>
    /\ cpc' = "panic"
    /\ UNCHANGED <<level, logger, pc, lastOp, levelSrc, levelArg,
                   loggerArgs, wr>>

\* The record of the call in progress once it is over.
Finished ==
    [Op(cur.m, 0, nil, FALSE, cur.f, <<>>, cur.fr) EXCEPT !.thr = cur.thr0]

\* One statement "if cond { c.Logger().op(params...) }" of the call in
\* progress, followed by the statement at next.
Statement(cond, op, next) ==
    /\ IF cond
       THEN \E out \in Outcomes(ReadLogger, op) :
              /\ calls' = Append(calls, [op |-> op, backend |-> ReadLogger,
                                         params |-> cur.params])
              /\ cpc' = IF out = "returned" THEN next ELSE "idle"
              /\ pc' \in (CASE out = "returned" -> {"run"}
                            [] out = "panicked" -> {"run", "exited"}
                            [] out = "exited" -> {"exited"})
       ELSE /\ calls' = calls
            /\ cpc' = next
            /\ pc' = pc
    /\ lastOp' = IF cpc' = "idle" THEN Finished ELSE lastOp
    /\ UNCHANGED <<level, logger, levelSrc, levelArg, loggerArgs, cur, wr>>

LogPanic ==
    /\ pc = "run"
    /\ cpc = "panic"
    /\ Statement(cur.lvl >= LogLevelPanic,
                 IF cur.fmtd THEN "Panicf" ELSE "Panic", "fatal")

LogFatal ==
    /\ pc = "run"
    /\ cpc = "fatal"
    /\ Statement(cur.lvl >= LogLevelFatal,
                 IF cur.fmtd THEN "Fatalf" ELSE "Fatal", "enabled")

\* The condition c.Enabled(level) of the last statement reads the threshold.
LogEnabled ==
    /\ pc = "run"
    /\ cpc = "enabled"
    /\ cpc' = IF Enabled(cur.lvl) THEN "print" ELSE "idle"
    /\ lastOp' = IF cpc' = "idle" THEN Finished ELSE lastOp
    /\ UNCHANGED <<level, logger, pc, calls, levelSrc, levelArg, loggerArgs,
                   cur, wr>>

\* Its body reads the backend and prints.
LogPrint ==
    /\ pc = "run"
    /\ cpc = "print"
    /\ Statement(TRUE, IF cur.fmtd THEN "Printf" ELSE "Print", "idle")

NextConc ==
    \/ ConcSetLevel
    \/ ConcSetLoggerFirst
    \/ ConcSetLoggerSecond
    \/ LogBegin
    \/ LogPanic
    \/ LogFatal
    \/ LogEnabled
    \/ LogPrint

SpecConc == InitConc /\ [][NextConc]_vars

\* ------------------------------------------------------------------------
\* Vocabulary of the properties
\* ------------------------------------------------------------------------

FormattedMethods ==
    {"Tracef", "Debugf", "Infof", "Warnf", "Errorf", "Fatalf", "Panicf"}
PlainMethods == {"Trace", "Debug", "Info", "Warn", "Error", "Fatal", "Panic"}
LogMethods == FormattedMethods \cup PlainMethods

\* The level a public method is named after.
Severity(m) ==
    CASE m \in {"Trace", "Tracef"} -> LogLevelTrace
      [] m \in {"Debug", "Debugf"} -> LogLevelDebug
      [] m \in {"Info", "Infof"} -> LogLevelInfo
      [] m \in {"Warn", "Warnf"} -> LogLevelWarn
      [] m \in {"Error", "Errorf"} -> LogLevelError
      [] m \in {"Fatal", "Fatalf"} -> LogLevelFatal
      [] m \in {"Panic", "Panicf"} -> LogLevelPanic

DisplayName(lvl) ==
    CASE lvl = LogLevelTrace -> "TRACE"
      [] lvl = LogLevelDebug -> "DEBUG"
      [] lvl = LogLevelInfo -> "INFO"
      [] lvl = LogLevelWarn -> "WARNING"
      [] lvl = LogLevelError -> "ERROR"
      [] lvl = LogLevelFatal -> "FATAL"
      [] lvl = LogLevelPanic -> "PANIC"

IsLogCall == lastOp.op \in LogMethods

\* The kinds of the backend operations of the last operation, in order.
Kinds == [i \in 1..Len(calls) |-> OpKind(calls[i].op)]
Prints == {i \in 1..Len(calls) : Kinds[i] = "print"}

\* The last operation made one backend invocation, a print.
OnePrint == Len(calls) = 1 /\ Kinds[1] = "print"

HasToken(text, tok) == \E i \in 1..Len(text) : text[i] = tok

\* The invocation carries the caller's format string and arguments.
CarriesContent(inv) ==
    /\ Tail(inv.params) = lastOp.v
    /\ lastOp.op \in FormattedMethods => HasToken(inv.params[1], lastOp.f)

\* ------------------------------------------------------------------------
\* Properties
\* ------------------------------------------------------------------------

\* C1: whatever SetLevel calls came before, with named or unnamed values,
\* Enabled(L) is true iff L is at least the argument of the most recent
\* SetLevel (the initial threshold if there was none).
EnabledFollowsLastSetLevel ==
    lastOp.op = "Enabled" => (lastOp.res <=> lastOp.lvl >= levelArg)

\* Enabled(Debug) answered true after SetLevel(0), a level without a name.
EnabledAfterUnnamedLevel ==
    /\ lastOp.op = "Enabled"
    /\ levelSrc = "SetLevel"
    /\ levelArg = 0
    /\ lastOp.lvl = LogLevelDebug
    /\ lastOp.res

\* C2: a call of a public log method whose severity is below the threshold
\* makes no Print/Printf invocation.
NoPrintBelowThreshold ==
    (IsLogCall /\ Severity(lastOp.op) < lastOp.thr) => Prints = {}

\* C3: on a backend whose panic and fatal return, a call of a public log
\* method whose severity is at or above the threshold makes exactly one
\* print invocation, whose message contains the display name of the
\* method's level and the caller's content.
OnePrintWithNameAndContent ==
    (/\ IsLogCall
     /\ Severity(lastOp.op) >= lastOp.thr
     /\ Logger \in ReturningBackends)
    => /\ Cardinality(Prints) = 1
       /\ \A i \in Prints :
            /\ HasToken(calls[i].params[1], DisplayName(Severity(lastOp.op)))
            /\ CarriesContent(calls[i])

\* C4: on a backend whose panic and fatal return, a Panic-level call invokes
\* panic, then fatal, a Fatal-level call invokes fatal and no panic, both
\* whatever the threshold, each followed by the print when the level is
\* enabled; a call below Fatal invokes neither.  The plain path uses the
\* plain operations and the formatted path the formatted ones.
CascadeOrder ==
    (IsLogCall /\ Logger \in ReturningBackends)
    => LET sev == Severity(lastOp.op)
           gated == IF sev >= lastOp.thr THEN <<"print">> ELSE <<>>
       IN /\ sev = LogLevelPanic => Kinds = <<"panic", "fatal">> \o gated
          /\ sev = LogLevelFatal => Kinds = <<"fatal">> \o gated
          /\ sev < LogLevelFatal =>
                \A i \in 1..Len(calls) : Kinds[i] = "print"
          /\ \A i \in 1..Len(calls) :
                calls[i].op \in {"Panicf", "Fatalf", "Printf"}
                    <=> lastOp.op \in FormattedMethods

\* Panicf on a returning backend, threshold at most Panic: three invocations.
PanicfCascaded ==
    /\ lastOp.op = "Panicf"
    /\ Logger \in ReturningBackends
    /\ Len(calls) = 3

\* C5: once SetLogger has been called, every invocation of a log call goes
\* to the argument of the most recent SetLogger, or to the default backend
\* when that argument is nil; in particular not to an explicit backend set
\* before the nil.
EmitUsesLatestLogger ==
    (IsLogCall /\ loggerArgs[2] # "none")
    => \A i \in 1..Len(calls) :
          /\ calls[i].backend =
                IF loggerArgs[2] = nil THEN defaultLogger ELSE loggerArgs[2]
          /\ (loggerArgs[2] = nil /\ loggerArgs[1] \in ClientBackends)
                => calls[i].backend # loggerArgs[1]

\* A log call emitted after SetLogger(explicit), SetLogger(nil).
EmitAfterLoggerReset ==
    /\ IsLogCall
    /\ loggerArgs[1] \in ClientBackends
    /\ loggerArgs[2] = nil
    /\ Len(calls) >= 1
    /\ calls[1].backend = defaultLogger

\* The threshold a value of UPPER_DB_LOG stands for.
ThresholdOfEnv(e) ==
    IF e = <<>> THEN LogLevelWarn
    ELSE CASE e[1] = "TRACE" -> LogLevelTrace
           [] e[1] = "DEBUG" -> LogLevelDebug
           [] e[1] = "INFO" -> LogLevelInfo
           [] e[1] = "WARNING" -> LogLevelWarn
           [] e[1] = "ERROR" -> LogLevelError
           [] e[1] = "FATAL" -> LogLevelFatal
           [] e[1] = "PANIC" -> LogLevelPanic
           [] OTHER -> LogLevelWarn

\* C6: right after startup the threshold is the level whose display name
\* UPPER_DB_LOG equals, and Warn when it is unset, empty or anything else,
\* whatever order the name map was visited in.
InitFromEnv == lastOp.op = "init" => level = ThresholdOfEnv(lastOp.env)

\* Startup with UPPER_DB_LOG=ERROR.
InitWithError ==
    /\ lastOp.op = "init"
    /\ lastOp.env = <<"ERROR">>
    /\ level = LogLevelError

\* C7: plain Trace is gated and labelled at Debug, Tracef is gated at Trace:
\* at threshold Debug Trace prints and Tracef does not, at threshold Trace
\* both print, above Debug neither does.
TraceGatedAtDebug ==
    /\ (lastOp.op = "Trace" /\ lastOp.thr = LogLevelDebug) => OnePrint
    /\ (lastOp.op = "Tracef" /\ lastOp.thr = LogLevelDebug) => calls = <<>>
    /\ (lastOp.op \in {"Trace", "Tracef"} /\ lastOp.thr = LogLevelTrace)
          => OnePrint
    /\ (lastOp.op \in {"Trace", "Tracef"} /\ lastOp.thr > LogLevelDebug)
          => calls = <<>>
    /\ (lastOp.op = "Trace" /\ calls # <<>>)
          => /\ HasToken(calls[1].params[1], "DEBUG")
             /\ ~HasToken(calls[1].params[1], "TRACE")
    /\ (lastOp.op = "Tracef" /\ calls # <<>>)
          => HasToken(calls[1].params[1], "TRACE")

\* Trace printed at threshold Debug.
TracePrintedAtDebug ==
    /\ lastOp.op = "Trace"
    /\ lastOp.thr = LogLevelDebug
    /\ OnePrint

\* C8: the levels are strictly ordered with Trace below zero, and while
\* nothing has overridden the threshold it is Warn: Trace, Tracef, Debug,
\* Debugf, Info and Infof invoke nothing, Warn and Error calls print.
DefaultThresholdSuppresses ==
    /\ LogLevelTrace < 0
    /\ LogLevelTrace < LogLevelDebug
    /\ LogLevelDebug < LogLevelInfo
    /\ LogLevelInfo < LogLevelWarn
    /\ LogLevelWarn < LogLevelError
    /\ LogLevelError < LogLevelFatal
    /\ LogLevelFatal < LogLevelPanic
    /\ levelSrc = "default" => level = LogLevelWarn
    /\ (/\ levelSrc = "default"
        /\ lastOp.op \in {"Trace", "Tracef", "Debug", "Debugf", "Info", "Infof"})
          => calls = <<>>
    /\ (/\ levelSrc = "default"
        /\ lastOp.op \in {"Warn", "Warnf", "Error", "Errorf"})
          => OnePrint

\* Warn printed while the threshold was the initial one.
WarnPrintedByDefault ==
    /\ levelSrc = "default"
    /\ lastOp.op = "Warn"
    /\ OnePrint

\* C9: Enabled changes neither field and invokes nothing, SetLevel sets the
\* threshold and keeps the backend, SetLogger sets the backend and keeps
\* the threshold, and a log call changes neither field.
FrameConditions ==
    [][ /\ lastOp'.op = "Enabled"
            => level' = level /\ logger' = logger /\ calls' = <<>>
        /\ lastOp'.op = "SetLevel"
            => level' = lastOp'.lvl /\ logger' = logger
        /\ lastOp'.op = "SetLogger"
            => logger' = lastOp'.b /\ level' = level
        /\ lastOp'.op \in LogMethods
            => level' = level /\ logger' = logger ]_vars

\* SetLogger acted while the threshold was not the default one.
SetLoggerKeptLevel ==
    /\ lastOp.op = "SetLogger"
    /\ logger = "rec1"
    /\ level = LogLevelTrace

\* C10: on a backend whose panic and fatal never return, no log call makes
\* two invocations: a Panic-level call makes only the panic one, a
\* Fatal-level call only the fatal one, and a call below Fatal at or above
\* the threshold only the print one.
SingleEffectWhenNotReturning ==
    (IsLogCall /\ Logger \notin ReturningBackends)
    => LET sev == Severity(lastOp.op)
       IN /\ Len(calls) <= 1
          /\ sev = LogLevelPanic => Kinds = <<"panic">>
          /\ sev = LogLevelFatal => Kinds = <<"fatal">>
          /\ (sev < LogLevelFatal /\ sev >= lastOp.thr) => Kinds = <<"print">>

\* Panic on the default backend while Panic is enabled: only the panic.
PanicOnlyPanics ==
    /\ lastOp.op = "Panic"
    /\ Logger = defaultLogger
    /\ lastOp.thr <= LogLevelPanic
    /\ Kinds = <<"panic">>

\* The level a public method is dispatched at: its own, except that plain
\* Trace is dispatched at Debug.
GatedLevel(m) == IF m = "Trace" THEN LogLevelDebug ELSE Severity(m)

\* The backend operations a call of method m makes at threshold thr on
\* backend b, stated without reference to the caller frame.
OpsOf(m, thr, b) ==
    LET g == GatedLevel(m)
        sfx == IF m \in FormattedMethods THEN "f" ELSE ""
        name(k) == CASE k = "panic" /\ sfx = "f" -> "Panicf"
                     [] k = "panic" /\ sfx = "" -> "Panic"
                     [] k = "fatal" /\ sfx = "f" -> "Fatalf"
                     [] k = "fatal" /\ sfx = "" -> "Fatal"
                     [] k = "print" /\ sfx = "f" -> "Printf"
                     [] k = "print" /\ sfx = "" -> "Print"
        gate == IF g >= thr THEN <<name("print")>> ELSE <<>>
        returns == b \in ReturningBackends
    IN IF g >= LogLevelPanic
       THEN IF returns THEN <<name("panic"), name("fatal")>> \o gate
            ELSE <<name("panic")>>
       ELSE IF g >= LogLevelFatal
       THEN IF returns THEN <<name("fatal")>> \o gate ELSE <<name("fatal")>>
       ELSE gate

\* C11: with or without a caller frame a log call makes the same backend
\* invocations (operations, count, gating); every message starts with the
\* tag "upper/db: ", contains the display name of the level and the
\* caller's content, and lacks only the file:line part when the frame is
\* missing.
FrameIsBestEffort ==
    IsLogCall
    => /\ [i \in 1..Len(calls) |-> calls[i].op]
             = OpsOf(lastOp.op, lastOp.thr, Logger)
       /\ \A i \in 1..Len(calls) :
            LET msg == calls[i].params[1]
                g == GatedLevel(lastOp.op)
            IN /\ msg[1] = "upper/db: "
               /\ HasToken(msg, DisplayName(g))
               /\ CarriesContent(calls[i])
               /\ calls[i].backend = Logger
               /\ lastOp.fr.ok
                    => /\ HasToken(msg, lastOp.fr.file)
                       /\ HasToken(msg, lastOp.fr.line)
               /\ ~lastOp.fr.ok
                    => msg = <<"upper/db: ", DisplayName(g), "\n">> \o
                         (IF lastOp.op \in FormattedMethods
                          THEN <<lastOp.f>> ELSE <<>>)

\* Panic without a caller frame on a returning backend: all three
\* invocations were made.
PanicWithoutFrame ==
    /\ lastOp.op = "Panic"
    /\ ~lastOp.fr.ok
    /\ Logger \in ReturningBackends
    /\ Len(calls) = 3
    /\ HasToken(calls[3].params[1], "PANIC")

\* A log call made step by step is over, came back to its caller, and all
\* its invocations went to backends whose panic and fatal return.
ConcCallOver ==
    /\ cpc = "idle"
    /\ cur.m # ""
    /\ pc = "run"
    /\ \A i \in 1..Len(calls) : calls[i].backend \in ReturningBackends

OneBackend ==
    \A i, j \in 1..Len(calls) : calls[i].backend = calls[j].backend

PrintAsAtStart == (Prints # {}) <=> (Severity(cur.m) >= cur.thr0)

\* C12 as stated: whatever SetLogger and SetLevel calls of another thread
\* interleave with a Panic- or Fatal-level call on returning backends, all
\* its invocations go to one backend and the print decision agrees with
\* the threshold at the start of the call.
OneBackendUnderInterleaving ==
    ConcCallOver => (OneBackend /\ PrintAsAtStart)

\* C12 as amended: the invocations go to one backend if no store of a
\* SetLogger falls between the start and the end of the call, and the
\* print decision agrees with the threshold at the start of the call if no
\* SetLevel falls in between.
OneBackendWhenUndisturbed ==
    ConcCallOver
    => /\ ~cur.loggerTouched => OneBackend
       /\ ~cur.levelTouched => PrintAsAtStart

\* An undisturbed Panic call at threshold Panic on a backend set earlier by
\* the other thread: panic, fatal and print all went there.
UndisturbedPanic ==
    /\ ConcCallOver
    /\ cur.m = "Panic"
    /\ cur.thr0 = LogLevelPanic
    /\ ~cur.loggerTouched
    /\ ~cur.levelTouched
    /\ Len(calls) = 3
    /\ calls[1].backend = "rec2"

====
